---------------------------- MODULE Spec2Model ----------------------------
(***************************************************************************)
(* A model of pysankey/sankey.py: one call of sankey(), step by step, from *)
(* the defaults of its arguments to the figure it returns or the exception *)
(* it raises.                                                              *)
(*                                                                         *)
(* Numbers.  Weights and vertical positions are floats in the source.      *)
(* Here every weight and position is an integer number of hundredths       *)
(* (1.0 is One = 100).  All weights of the model are multiples of 50       *)
(* hundredths, so the gap 0.02 * sum is an integer number of hundredths    *)
(* and no rounding happens.                                                *)
(*                                                                         *)
(* The rendering backend (matplotlib.pyplot) is the variable plt: the      *)
(* calls issued so far, by kind.  A strip is recorded by the four          *)
(* endpoints its two edges are built from (lines 259-269); the two         *)
(* smoothing convolutions are a function of those endpoints alone.         *)
(***************************************************************************)
EXTENDS Integers, Sequences, FiniteSets, TLC

VARIABLES
    pc,            \* the position of the call inside sankey()
    input,         \* the arguments of the call, as the caller passed them
    leftWeight,    \* local leftWeight after lines 95-105
    rightWeight,   \* local rightWeight after lines 97-108
    df,            \* the DataFrame of lines 119-127: a sequence of rows
    allLabels,     \* line 133
    leftLabels,    \* local leftLabels (lines 99-100, 136-137)
    rightLabels,   \* local rightLabels (lines 101-102, 142-143)
    colorDict,     \* lines 147-152
    ns_l,          \* lines 162-171
    ns_r,
    widths_left,   \* lines 174-187, mutated at line 272
    widths_right,  \* lines 190-203, mutated at line 273
    topEdge,       \* <<>> while the local is unbound, <<v>> once assigned
    xMax,          \* line 206: <<>>, or <<numerator, denominator>>
    plt,           \* what has been issued to matplotlib.pyplot
    error,         \* the exception that ended the call, or NoError
    returned       \* TRUE once the call has returned plt.gcf()

vars == <<pc, input, leftWeight, rightWeight, df, allLabels, leftLabels,
          rightLabels, colorDict, ns_l, ns_r, widths_left, widths_right,
          topEdge, xMax, plt, error, returned>>

---------------------------------------------------------------------------
(* Bounds of the model and constants of the program *)

MaxRecords == 3

One == 100

DefaultAspect == 4

DefaultThreshold == 0

GapNum == 2

GapDen == 100

Null == "null"

NoFigureName == "None"

NoError == [type |-> "none", detail |-> <<>>]

Raised(type, detail) == [type |-> type, detail |-> detail]

LeftData == {"A", "B"}

RightData == {"X", "Y"}

Weights == {50, 100}

---------------------------------------------------------------------------
(* Helpers over sequences *)

Range(s) == {s[i] : i \in DOMAIN s}

RECURSIVE unique(_)
unique(s) ==
    IF s = <<>> THEN <<>>
    ELSE LET r == unique(SubSeq(s, 1, Len(s) - 1))
             x == s[Len(s)]
         IN  IF x \in Range(r) THEN r ELSE Append(r, x)

RECURSIVE SumOver(_, _)
SumOver(f, S) ==
    IF S = {} THEN 0
    ELSE LET i == CHOOSE k \in S : TRUE
         IN  f[i] + SumOver(f, S \ {i})

Column(frame, col) == [i \in DOMAIN frame |-> frame[i][col]]

\* df[(df.left == l) & (df.right == l2)]: the indexes of the matching rows
Matching(frame, l, l2) ==
    {i \in DOMAIN frame : frame[i]["left"] = l /\ frame[i]["right"] = l2}

\* df[df.<side> == l].<col>.sum()
SideSum(frame, side, l, col) ==
    SumOver(Column(frame, col), {i \in DOMAIN frame : frame[i][side] = l})

\* df[(df.left == l) & (df.right == l2)].<col>.sum()
PairSum(frame, l, l2, col) ==
    SumOver(Column(frame, col), Matching(frame, l, l2))

\* df.<col>.sum()
TotalSum(frame, col) == SumOver(Column(frame, col), DOMAIN frame)

---------------------------------------------------------------------------
(* check_data_matches_labels, lines 39-55.  labels is a list and data a    *)
(* column of the frame; both are turned into sets and compared, so a list  *)
(* that repeats a label equals the data's labels as soon as its set does.  *)
(* The result is the exception raised, or NoError; of the message (lines   *)
(* 48-52) only the side is kept.                                           *)

\* a variant that only asks the supplied labels to occur in the data
check_data_matches_labels_subset(labels, data, side) ==
    IF Len(labels) > 0 /\ ~(Range(labels) \subseteq Range(data))
    THEN Raised("LabelMismatch", <<side>>)
    ELSE NoError

check_data_matches_labels(labels, data, side) ==
    IF Len(labels) > 0 /\ Range(labels) # Range(data)
    THEN Raised("LabelMismatch", <<side>>)
    ELSE NoError

---------------------------------------------------------------------------
(* Lines 95-108: the defaults of the weights *)

DefaultLeftWeight(call) ==
    IF Len(call.leftWeight) = 0
    THEN [i \in 1..Len(call.left) |-> One]
    ELSE call.leftWeight

DefaultRightWeight(call) ==
    IF Len(call.rightWeight) = 0
    THEN DefaultLeftWeight(call)
    ELSE call.rightWeight

(* Lines 119-127: pd.DataFrame over index range(len(left)).  The columns   *)
(* of the model are lists or arrays: one whose length differs from the     *)
(* index makes pandas raise ValueError.                                    *)
FrameFits(left, right, lw, rw) ==
    /\ Len(right) = Len(left)
    /\ Len(lw) = Len(left)
    /\ Len(rw) = Len(left)

Frame(left, right, lw, rw) ==
    [i \in 1..Len(left) |->
        [left |-> left[i], right |-> right[i],
         leftWeight |-> lw[i], rightWeight |-> rw[i]]]

\* a variant with & for | : only rows null on both sides
NullRows_both(frame) ==
    {i \in DOMAIN frame : frame[i]["left"] = Null /\ frame[i]["right"] = Null}

\* line 129: len(df[(df.left.isnull()) | (df.right.isnull())])
NullRows(frame) ==
    {i \in DOMAIN frame : frame[i]["left"] = Null \/ frame[i]["right"] = Null}

\* line 133
AllLabelsOf(frame) ==
    unique(unique(Column(frame, "left")) \o unique(Column(frame, "right")))

---------------------------------------------------------------------------
(* Lines 147-159: the colours *)

Palette(labels) ==
    [l \in Range(labels) |->
        [pal |-> "hls", n |-> Len(labels),
         i |-> CHOOSE k \in DOMAIN labels : labels[k] = l]]

\* a variant that only compares the number of keys with the number of labels
MissingColors_byCount(labels, given) ==
    IF Cardinality(DOMAIN given) >= Len(labels)
    THEN <<>>
    ELSE SelectSeq(labels, LAMBDA l : l \notin DOMAIN given)

\* line 154
MissingColors(labels, given) ==
    SelectSeq(labels, LAMBDA l : l \notin DOMAIN given)

---------------------------------------------------------------------------
(* Lines 161-171: the widths of the strips *)

StripWidths(frame, ll, rl, col) ==
    [l \in Range(ll) |-> [l2 \in Range(rl) |-> PairSum(frame, l, l2, col)]]

(* Lines 173-203: the positions of the label patches of one side.  acc is  *)
(* the dictionary built so far and the local topEdge, which only the else  *)
(* branch (i > 0) assigns.                                                 *)
\* a variant with count() for sum(): 2% of the number of records
Gap_ofCount(frame, col) == (GapNum * Len(frame)) \div GapDen

Gap(frame, col) == (GapNum * TotalSum(frame, col)) \div GapDen

RECURSIVE Stack(_, _, _, _, _, _)
Stack(frame, side, col, labels, i, acc) ==
    IF i > Len(labels) THEN acc
    ELSE LET l == labels[i]
             w == SideSum(frame, side, l, col)
             bottom == IF i = 1 THEN 0
                       ELSE acc.widths[labels[i - 1]]["top"] + Gap(frame, col)
             myD == (side :> w) @@ ("bottom" :> bottom) @@ ("top" :> bottom + w)
         IN  Stack(frame, side, col, labels, i + 1,
                   [widths |-> (l :> myD) @@ acc.widths,
                    topEdge |-> IF i = 1 THEN acc.topEdge ELSE <<bottom + w>>])

---------------------------------------------------------------------------
(* Lines 208-238: the bars and the texts of one side, in list order.  A    *)
(* bar is recorded by its label, its vertical extent and its colour; its   *)
(* horizontal extent is a multiple of xMax.                                *)

Bars(side, labels, widths, colors) ==
    [i \in DOMAIN labels |->
        [side |-> side, label |-> labels[i],
         bottom |-> widths[labels[i]]["bottom"],
         top |-> widths[labels[i]]["bottom"] + widths[labels[i]][side],
         color |-> colors[labels[i]]]]

\* the y of the text, doubled: 2 * (bottom + 0.5 * width)
Texts(side, labels, widths) ==
    [i \in DOMAIN labels |->
        [side |-> side, label |-> labels[i],
         twiceY |-> 2 * widths[labels[i]]["bottom"] + widths[labels[i]][side]]]

---------------------------------------------------------------------------
(* Lines 240-280: the strips *)

\* line 241
Threshold(kwargs) ==
    IF "low_weight_treshold" \in DOMAIN kwargs
    THEN kwargs["low_weight_treshold"]
    ELSE DefaultThreshold

\* a variant with any() for all(): one side below the threshold is enough
LowWeight_any(nl, nr, threshold) == nl < threshold \/ nr < threshold

\* lines 250-255
LowWeight(nl, nr, threshold) == nl < threshold /\ nr < threshold

\* lines 272-273
Advance(widths, l, by) == [widths EXCEPT ![l]["bottom"] = @ + by]

RECURSIVE StripLoop(_, _, _, _, _, _, _, _, _)
StripLoop(frame, ll, rl, nsl, nsr, colors, call, k, acc) ==
    IF k > Len(ll) * Len(rl) THEN acc
    ELSE LET l == ll[((k - 1) \div Len(rl)) + 1]
             l2 == rl[((k - 1) % Len(rl)) + 1]
             lc == IF call.rightColor THEN l2 ELSE l
             strip == [left |-> l, right |-> l2,
                       leftBottom |-> acc.wl[l]["bottom"],
                       leftTop |-> acc.wl[l]["bottom"] + nsl[l][l2],
                       rightBottom |-> acc.wr[l2]["bottom"],
                       rightTop |-> acc.wr[l2]["bottom"] + nsr[l][l2],
                       color |-> colors[lc]]
             next ==
                 IF Cardinality(Matching(frame, l, l2)) > 0
                 THEN IF LowWeight(nsl[l][l2], nsr[l][l2], Threshold(call.kwargs))
                      THEN acc
                      ELSE [wl |-> Advance(acc.wl, l, nsl[l][l2]),
                            wr |-> Advance(acc.wr, l2, nsr[l][l2]),
                            strips |-> Append(acc.strips, strip)]
                 ELSE acc
         IN  StripLoop(frame, ll, rl, nsl, nsr, colors, call, k + 1, next)

---------------------------------------------------------------------------
(* The calls of the model *)

Call(left, right, lw, rw, cd, ll, rl, kw, rc, fn, cp) ==
    [left |-> left, right |-> right, leftWeight |-> lw, rightWeight |-> rw,
     colorDict |-> cd, leftLabels |-> ll, rightLabels |-> rl,
     aspect |-> DefaultAspect, rightColor |-> rc, figure_name |-> fn,
     closePlot |-> cp, kwargs |-> kw]

NoColorDict == [given |-> FALSE, map |-> <<>>]

UserColors(keys) ==
    [given |-> TRUE, map |-> [k \in keys |-> [pal |-> "user", n |-> 0, i |-> 0]]]

NoKwargs == <<>>

LowWeightTreshold(t) == "low_weight_treshold" :> t

SeqsUpTo(S, lo, hi) == UNION {[1..n -> S] : n \in lo..hi}

\* a weight column: omitted, or one weight of W per record
WeightColumns(n, W) == {<<>>} \cup [1..n -> W]

\* the weights 0.5, 1.0, 1.5, ... of records 1, 2, 3, ...
Rising(n) == [i \in 1..n |-> 50 * i]

Tables(lo, hi, L, R) == UNION {[1..n -> L] \X [1..n -> R] : n \in lo..hi}

Plain(left, right, lw, rw, kw) ==
    Call(left, right, lw, rw, NoColorDict, <<>>, <<>>, kw, FALSE,
         NoFigureName, FALSE)

\* well-formed tables with every choice of the weights 0.5 and 1.0
GeometryCall(c) ==
    \E n \in 0..MaxRecords :
        \E left \in [1..n -> LeftData], right \in [1..n -> RightData],
           lw \in WeightColumns(n, Weights), rw \in WeightColumns(n, Weights) :
            c = Plain(left, right, lw, rw, NoKwargs)

\* weights that may be zero
ZeroWeightCall(c) ==
    \E n \in 1..MaxRecords - 1 :
        \E left \in [1..n -> LeftData], right \in [1..n -> RightData],
           lw \in [1..n -> Weights \cup {0}], rw \in WeightColumns(n, {0, 100}) :
            c = Plain(left, right, lw, rw, NoKwargs)

\* a low-weight threshold passed through **kwargs
Thresholds == {100, 100 * (MaxRecords + 2)}

ThresholdCall(c) ==
    \E n \in 1..MaxRecords - 1 :
        \E left \in [1..n -> LeftData], right \in [1..n -> RightData],
           lw \in WeightColumns(n, Weights), rw \in WeightColumns(n, Weights),
           th \in Thresholds :
            c = Plain(left, right, lw, rw, LowWeightTreshold(th))

\* orderings of the labels supplied by the caller, repeated labels included
Orderings ==
    (SeqsUpTo(LeftData, 0, MaxRecords) \X SeqsUpTo(RightData, 0, 1))
        \cup (SeqsUpTo(LeftData, 0, 1) \X SeqsUpTo(RightData, 0, MaxRecords))

OrderCall(c) ==
    \E n \in 1..MaxRecords - 1 :
        \E left \in [1..n -> LeftData], right \in [1..n -> RightData],
           lw \in {<<>>, Rising(n)}, o \in Orderings :
            c = Call(left, right, lw, <<>>, NoColorDict, o[1], o[2], NoKwargs,
                     FALSE, NoFigureName, FALSE)

\* records with a null label
NullCall(c) ==
    \E t \in Tables(1, MaxRecords - 1, LeftData \cup {Null}, RightData \cup {Null}),
       ll \in {<<>>, <<"A">>, <<"B", "A">>},
       cd \in {NoColorDict, UserColors({}), UserColors(LeftData \cup RightData)} :
        /\ Null \in Range(t[1]) \cup Range(t[2])
        /\ c = Call(t[1], t[2], <<>>, <<>>, cd, ll, <<>>, NoKwargs, FALSE,
                    NoFigureName, FALSE)

\* columns of different lengths
LengthCall(c) ==
    \E left \in SeqsUpTo({"A"}, 0, MaxRecords), right \in SeqsUpTo({"X"}, 0, MaxRecords),
       lw \in SeqsUpTo({One}, 0, MaxRecords), rw \in SeqsUpTo({One}, 0, MaxRecords) :
        /\ \/ Len(right) # Len(left)
           \/ Len(lw) \notin {0, Len(left)}
           \/ Len(rw) \notin {0, Len(left)}
        /\ c = Plain(left, right, lw, rw, NoKwargs)

\* a colour mapping supplied by the caller; a label may be on both sides
ColorCall(c) ==
    \E t \in Tables(1, MaxRecords - 1, LeftData, RightData \cup {"A"}),
       cd \in {NoColorDict} \cup {UserColors(K) : K \in SUBSET (LeftData \cup RightData)},
       rc \in BOOLEAN :
        c = Call(t[1], t[2], <<>>, <<>>, cd, <<>>, <<>>, NoKwargs, rc,
                 NoFigureName, FALSE)

\* other options: keys **kwargs does not know, the file name, closePlot
OptionCall(c) ==
    \E t \in Tables(1, MaxRecords - 1, LeftData, RightData),
       kw \in {"low_weight_threshold" :> 100 * (MaxRecords + 2),
               ("verbose" :> 1) @@ LowWeightTreshold(100)},
       fn \in {NoFigureName, "sankey"},
       cp \in BOOLEAN :
        /\ Cardinality(Range(t[1])) + Cardinality(Range(t[2])) > 2
        /\ c = Call(t[1], t[2], <<>>, <<>>, NoColorDict, <<>>, <<>>, kw, FALSE, fn, cp)

IsCall(c) ==
    \/ OrderCall(c)
    \/ GeometryCall(c)
    \/ ZeroWeightCall(c)
    \/ ThresholdCall(c)
    \/ NullCall(c)
    \/ LengthCall(c)
    \/ ColorCall(c)
    \/ OptionCall(c)

---------------------------------------------------------------------------
(* The call, step by step *)

NoPlot == [figures |-> 0, bars |-> <<>>, texts |-> <<>>, strips |-> <<>>,
           axis |-> "on", saved |-> <<>>, closed |-> 0]

Init ==
    /\ IsCall(input)
    /\ pc = "start"
    /\ leftWeight = <<>>
    /\ rightWeight = <<>>
    /\ df = <<>>
    /\ allLabels = <<>>
    /\ leftLabels = <<>>
    /\ rightLabels = <<>>
    /\ colorDict = <<>>
    /\ ns_l = <<>>
    /\ ns_r = <<>>
    /\ widths_left = <<>>
    /\ widths_right = <<>>
    /\ topEdge = <<>>
    /\ xMax = <<>>
    /\ plt = NoPlot
    /\ error = NoError
    /\ returned = FALSE

\* lines 95-110: the defaults, then plt.figure()
OpenFigure ==
    /\ pc = "start"
    /\ leftWeight' = DefaultLeftWeight(input)
    /\ rightWeight' = DefaultRightWeight(input)
    /\ leftLabels' = input.leftLabels
    /\ rightLabels' = input.rightLabels
    /\ plt' = [plt EXCEPT !.figures = @ + 1]
    /\ pc' = "frame"
    /\ UNCHANGED <<input, df, allLabels, colorDict, ns_l, ns_r, widths_left,
                   widths_right, topEdge, xMax, error, returned>>

\* lines 114-130: the frame and the null check
CreateDataframe ==
    /\ pc = "frame"
    /\ IF ~FrameFits(input.left, input.right, leftWeight, rightWeight)
       THEN /\ error' = Raised("ValueError", <<>>)
            /\ pc' = "raised"
            /\ df' = df
       ELSE /\ df' = Frame(input.left, input.right, leftWeight, rightWeight)
            /\ IF NullRows(df') # {}
               THEN error' = Raised("NullsInFrame", <<>>) /\ pc' = "raised"
               ELSE error' = error /\ pc' = "labels"
    /\ UNCHANGED <<input, leftWeight, rightWeight, allLabels, leftLabels,
                   rightLabels, colorDict, ns_l, ns_r, widths_left,
                   widths_right, topEdge, xMax, plt, returned>>

\* lines 132-145: the labels of both sides
IdentifyLabels ==
    /\ pc = "labels"
    /\ allLabels' = AllLabelsOf(df)
    /\ LET el == check_data_matches_labels(leftLabels, Column(df, "left"), "left")
           er == check_data_matches_labels(rightLabels, Column(df, "right"), "right")
       IN  IF el # NoError
           THEN /\ error' = el
                /\ pc' = "raised"
                /\ UNCHANGED <<leftLabels, rightLabels>>
           ELSE /\ leftLabels' = IF Len(leftLabels) = 0
                                 THEN unique(unique(Column(df, "left")))
                                 ELSE leftLabels
                /\ IF er # NoError
                   THEN /\ error' = er
                        /\ pc' = "raised"
                        /\ UNCHANGED rightLabels
                   ELSE /\ rightLabels' = IF Len(rightLabels) = 0
                                          THEN unique(unique(Column(df, "right")))
                                          ELSE rightLabels
                        /\ error' = error
                        /\ pc' = "colors"
    /\ UNCHANGED <<input, leftWeight, rightWeight, df, colorDict, ns_l, ns_r,
                   widths_left, widths_right, topEdge, xMax, plt, returned>>

\* lines 146-159: the colour of every label
MakeColorDict ==
    /\ pc = "colors"
    /\ IF ~input.colorDict.given
       THEN /\ colorDict' = Palette(allLabels)
            /\ error' = error
            /\ pc' = "widths"
       ELSE LET missing == MissingColors(allLabels, input.colorDict.map)
            IN  IF missing # <<>>
                THEN /\ error' = Raised("RuntimeError", missing)
                     /\ pc' = "raised"
                     /\ colorDict' = input.colorDict.map
                ELSE /\ colorDict' = input.colorDict.map
                     /\ error' = error
                     /\ pc' = "widths"
    /\ UNCHANGED <<input, leftWeight, rightWeight, df, allLabels, leftLabels,
                   rightLabels, ns_l, ns_r, widths_left, widths_right, topEdge,
                   xMax, plt, returned>>

\* lines 161-206: the widths, the positions and xMax = topEdge / aspect
DetermineWidths ==
    /\ pc = "widths"
    /\ ns_l' = StripWidths(df, leftLabels, rightLabels, "leftWeight")
    /\ ns_r' = StripWidths(df, leftLabels, rightLabels, "rightWeight")
    /\ LET sl == Stack(df, "left", "leftWeight", leftLabels, 1,
                       [widths |-> <<>>, topEdge |-> <<>>])
           sr == Stack(df, "right", "rightWeight", rightLabels, 1,
                       [widths |-> <<>>, topEdge |-> sl.topEdge])
       IN  /\ widths_left' = sl.widths
           /\ widths_right' = sr.widths
           /\ topEdge' = sr.topEdge
    /\ IF topEdge' = <<>>
       THEN /\ error' = Raised("UnboundLocalError", <<"topEdge">>)
            /\ pc' = "raised"
            /\ xMax' = xMax
       ELSE /\ error' = error
            /\ pc' = "bars"
            /\ xMax' = <<topEdge'[1], input.aspect>>
    /\ UNCHANGED <<input, leftWeight, rightWeight, df, allLabels, leftLabels,
                   rightLabels, colorDict, plt, returned>>

\* lines 208-238: the bar and the text of every label
DrawBars ==
    /\ pc = "bars"
    /\ plt' = [plt EXCEPT
                 !.bars = Bars("left", leftLabels, widths_left, colorDict)
                            \o Bars("right", rightLabels, widths_right, colorDict),
                 !.texts = Texts("left", leftLabels, widths_left)
                            \o Texts("right", rightLabels, widths_right)]
    /\ pc' = "strips"
    /\ UNCHANGED <<input, leftWeight, rightWeight, df, allLabels, leftLabels,
                   rightLabels, colorDict, ns_l, ns_r, widths_left,
                   widths_right, topEdge, xMax, error, returned>>

\* lines 240-280: the strips
PlotStrips ==
    /\ pc = "strips"
    /\ LET end == StripLoop(df, leftLabels, rightLabels, ns_l, ns_r, colorDict,
                            input, 1,
                            [wl |-> widths_left, wr |-> widths_right,
                             strips |-> <<>>])
       IN  /\ widths_left' = end.wl
           /\ widths_right' = end.wr
           /\ plt' = [plt EXCEPT !.strips = end.strips]
    /\ pc' = "finish"
    /\ UNCHANGED <<input, leftWeight, rightWeight, df, allLabels, leftLabels,
                   rightLabels, colorDict, ns_l, ns_r, topEdge, xMax, error,
                   returned>>

\* lines 282-289: axis off, the file, close or return
Finish ==
    /\ pc = "finish"
    /\ plt' = [plt EXCEPT
                 !.axis = "off",
                 !.saved = IF input.figure_name # NoFigureName
                           THEN Append(@, input.figure_name) ELSE @,
                 !.closed = IF input.closePlot THEN @ + 1 ELSE @]
    /\ returned' = ~input.closePlot
    /\ pc' = "done"
    /\ UNCHANGED <<input, leftWeight, rightWeight, df, allLabels, leftLabels,
                   rightLabels, colorDict, ns_l, ns_r, widths_left,
                   widths_right, topEdge, xMax, error>>

Next ==
    \/ OpenFigure
    \/ CreateDataframe
    \/ IdentifyLabels
    \/ MakeColorDict
    \/ DetermineWidths
    \/ DrawBars
    \/ PlotStrips
    \/ Finish

Spec == Init /\ [][Next]_vars

---------------------------------------------------------------------------
(* What the properties below speak about *)

Total(col) == SumOver(col, DOMAIN col)

\* the call was checked and laid out, and its bars are drawn
BarsDrawn == pc \in {"strips", "finish", "done"}

\* the loop over the strips has finished
StripsDone == pc \in {"finish", "done"}

\* the table of the call: columns of one length, weights omitted or complete
HasRecords(call) ==
    FrameFits(call.left, call.right, DefaultLeftWeight(call), DefaultRightWeight(call))

HasNull(call) == Null \in Range(call.left) \cup Range(call.right)

\* a supplied ordering whose set of labels is not the one of the data
Mismatch(call) ==
    \/ Len(call.leftLabels) > 0 /\ Range(call.leftLabels) # Range(call.left)
    \/ Len(call.rightLabels) > 0 /\ Range(call.rightLabels) # Range(call.right)

\* the label intervals drawn on one side
Intervals(side) ==
    {[label |-> b.label, bottom |-> b.bottom, top |-> b.top] :
        b \in {x \in Range(plt.bars) : x.side = side}}

Heights(S) == SumOver([x \in S |-> x.top - x.bottom], S)

IntervalOf(side, l) == CHOOSE x \in Intervals(side) : x.label = l

Lo(s, side) == IF side = "left" THEN s.leftBottom ELSE s.rightBottom

Hi(s, side) == IF side = "left" THEN s.leftTop ELSE s.rightTop

StripsAt(side, l) == SelectSeq(plt.strips, LAMBDA s : s[side] = l)

\* the strips ss lie end to end from lo to hi
Chain(ss, side, lo, hi) ==
    IF ss = <<>> THEN lo = hi
    ELSE /\ Lo(ss[1], side) = lo
         /\ \A i \in 1..Len(ss) - 1 : Lo(ss[i + 1], side) = Hi(ss[i], side)
         /\ Hi(ss[Len(ss)], side) = hi

HasStrip(l, l2) == \E s \in Range(plt.strips) : s.left = l /\ s.right = l2

\* the threshold the caller passed (0 when none)
CallThreshold == Threshold(input.kwargs)

MatchingPairs ==
    {p \in Range(leftLabels) \X Range(rightLabels) : Matching(df, p[1], p[2]) # {}}

---------------------------------------------------------------------------
(* C1.  After the loop over the strips: every strip of a pair (l, l2) is   *)
(* as high as the aggregated leftWeight of the pair on the left and as     *)
(* the aggregated rightWeight on the right, and for every label the strips *)
(* of that label lie end to end, without overlap, from the bottom to the   *)
(* top of the label's interval, where the running offset ends.             *)
C1_StripsPartitionLabels ==
    StripsDone =>
        /\ \A s \in Range(plt.strips) :
            /\ s.leftTop - s.leftBottom = PairSum(df, s.left, s.right, "leftWeight")
            /\ s.rightTop - s.rightBottom = PairSum(df, s.left, s.right, "rightWeight")
        /\ \A l \in Range(leftLabels) :
            /\ Chain(StripsAt("left", l), "left",
                     IntervalOf("left", l).bottom, IntervalOf("left", l).top)
            /\ widths_left[l]["bottom"] = IntervalOf("left", l).top
        /\ \A l \in Range(rightLabels) :
            /\ Chain(StripsAt("right", l), "right",
                     IntervalOf("right", l).bottom, IntervalOf("right", l).top)
            /\ widths_right[l]["bottom"] = IntervalOf("right", l).top

---------------------------------------------------------------------------
---------------------------------------------------------------------------
(* C3.  A call with records and without nulls whose supplied leftLabels or *)
(* rightLabels differ, as a set, from the labels of the data fails with    *)
(* LabelMismatch, and when it fails nothing has been issued to the         *)
(* backend: no figure opened, no bar, text or strip drawn, no file written.*)
C3_MismatchLeavesBackendUntouched ==
    (HasRecords(input) /\ ~HasNull(input) /\ Mismatch(input)
        /\ pc \notin {"start", "frame", "labels"}) =>
        /\ pc = "raised"
        /\ error.type = "LabelMismatch"
        /\ plt = NoPlot

---------------------------------------------------------------------------
(* C4.  A call one of whose records has a null left or right label fails   *)
(* with NullsInFrame, whatever the other records, the supplied orderings   *)
(* and the colour mapping are, and no bar, text or strip is drawn.         *)
C4_NullRecordFails ==
    (HasRecords(input) /\ HasNull(input) /\ pc \notin {"start", "frame"}) =>
        /\ pc = "raised"
        /\ error.type = "NullsInFrame"
        /\ plt.bars = <<>>
        /\ plt.texts = <<>>
        /\ plt.strips = <<>>

C4_Witness ==
    /\ pc = "raised"
    /\ error.type = "NullsInFrame"
    /\ Len(input.left) = 2
    /\ input.left[1] = Null
    /\ input.left[2] # Null /\ input.right[2] # Null
    /\ input.leftLabels = <<"B", "A">>
    /\ input.colorDict = UserColors({})

---------------------------------------------------------------------------
(* C5.  left = [A, A, B], right = [X, Y, X], all weights 1 (100            *)
(* hundredths), no orderings: the left intervals are A: [0, 200] and       *)
(* B: [206, 306], the right ones X: [0, 200] and Y: [206, 306], and the    *)
(* strips are (A, X), (A, Y), (B, X), each 100 high on both sides.         *)
Example ==
    Plain(<<"A", "A", "B">>, <<"X", "Y", "X">>, <<>>, <<>>, NoKwargs)

ExampleStrip(l, l2, lb, rb) ==
    [left |-> l, right |-> l2, lo |-> lb, hi |-> lb + 100, rlo |-> rb, rhi |-> rb + 100]

---------------------------------------------------------------------------
(* C6.  After the layout, on each side and in list order: the first        *)
(* label's interval starts at 0, every later one starts at the top of the  *)
(* label before it plus 2% of the side's total weight, every interval is   *)
(* as high as its label's total weight on that side, top >= bottom, and    *)
(* the intervals of two positions of the list do not overlap.              *)
Stacked(labels, widths, side, col) ==
    /\ \A i \in DOMAIN labels :
        /\ widths[labels[i]]["bottom"] =
              IF i = 1 THEN 0
              ELSE widths[labels[i - 1]]["top"] + Gap(df, col)
        /\ widths[labels[i]]["top"] - widths[labels[i]]["bottom"]
              = SideSum(df, side, labels[i], col)
        /\ widths[labels[i]]["top"] >= widths[labels[i]]["bottom"]
    /\ \A i, j \in DOMAIN labels :
        i < j => widths[labels[i]]["top"] <= widths[labels[j]]["bottom"]

C6_IntervalsStacked ==
    pc = "bars" =>
        /\ Stacked(leftLabels, widths_left, "left", "leftWeight")
        /\ Stacked(rightLabels, widths_right, "right", "rightWeight")

---------------------------------------------------------------------------
(* C7.  A pair with a matching record has no strip exactly when its        *)
(* aggregated left weight and its aggregated right weight are both         *)
(* strictly below the threshold; with the default threshold no such pair   *)
(* is skipped; with a threshold above every pair's weights no strip is     *)
(* drawn and the bars are those of the same call without the threshold.    *)
BarsOfCall(call) ==
    LET frame == Frame(call.left, call.right, DefaultLeftWeight(call),
                       DefaultRightWeight(call))
        ll == IF Len(call.leftLabels) = 0
              THEN unique(Column(frame, "left")) ELSE call.leftLabels
        rl == IF Len(call.rightLabels) = 0
              THEN unique(Column(frame, "right")) ELSE call.rightLabels
        colors == IF call.colorDict.given THEN call.colorDict.map
                  ELSE Palette(AllLabelsOf(frame))
        sl == Stack(frame, "left", "leftWeight", ll, 1,
                    [widths |-> <<>>, topEdge |-> <<>>])
        sr == Stack(frame, "right", "rightWeight", rl, 1,
                    [widths |-> <<>>, topEdge |-> <<>>])
    IN  Bars("left", ll, sl.widths, colors) \o Bars("right", rl, sr.widths, colors)

AboveEveryPair ==
    \A p \in MatchingPairs :
        /\ PairSum(df, p[1], p[2], "leftWeight") < CallThreshold
        /\ PairSum(df, p[1], p[2], "rightWeight") < CallThreshold

C7_LowWeightSkipped ==
    StripsDone =>
        /\ \A p \in MatchingPairs :
            ~HasStrip(p[1], p[2]) <=>
                /\ PairSum(df, p[1], p[2], "leftWeight") < CallThreshold
                /\ PairSum(df, p[1], p[2], "rightWeight") < CallThreshold
        /\ CallThreshold = DefaultThreshold =>
            \A p \in MatchingPairs : HasStrip(p[1], p[2])
        /\ AboveEveryPair =>
            /\ plt.strips = <<>>
            /\ plt.bars = BarsOfCall([input EXCEPT !.kwargs = NoKwargs])

C7_Witness ==
    /\ pc = "done"
    /\ CallThreshold = 100
    /\ \E p \in MatchingPairs : ~HasStrip(p[1], p[2])
    /\ \E p \in MatchingPairs :
        /\ HasStrip(p[1], p[2])
        /\ PairSum(df, p[1], p[2], "leftWeight") < CallThreshold

C7_NoStripsReached ==
    /\ pc = "done"
    /\ AboveEveryPair
    /\ plt.strips = <<>>
    /\ Len(plt.bars) = 4

---------------------------------------------------------------------------
(* C8.  A call whose left and right differ in length, or whose supplied    *)
(* weights are not one per record, or that passes an option **kwargs does  *)
(* not know, ends with a generic invalid-argument error (ValueError or     *)
(* TypeError) and never with a rendered figure.                            *)
KnownOptions == {"low_weight_treshold"}

Malformed(call) ==
    \/ ~HasRecords(call)
    \/ ~(DOMAIN call.kwargs \subseteq KnownOptions)

C8_MalformedRejected ==
    (Malformed(input) /\ pc \in {"raised", "done"}) =>
        /\ pc = "raised"
        /\ error.type \in {"ValueError", "TypeError"}

---------------------------------------------------------------------------
(* C9.  When the call reaches the colours (records, no nulls, orderings    *)
(* accepted) with a mapping supplied, it fails there, before any bar,      *)
(* text or strip, exactly when a label of the data is no key of the        *)
(* mapping; without a mapping every label of the data gets one colour of   *)
(* its own, and every bar and strip drawn carries the colour of its label. *)
ReachesColors(call) == HasRecords(call) /\ ~HasNull(call) /\ ~Mismatch(call)

DataLabels(call) == Range(call.left) \cup Range(call.right)

C9_ColorsCoverLabels ==
    (ReachesColors(input) /\ pc \notin {"start", "frame", "labels", "colors"}) =>
        /\ input.colorDict.given =>
            /\ (pc = "raised" /\ error.type = "RuntimeError")
                 <=> ~(DataLabels(input) \subseteq DOMAIN input.colorDict.map)
            /\ error.type = "RuntimeError" =>
                 plt.bars = <<>> /\ plt.texts = <<>> /\ plt.strips = <<>>
        /\ ~input.colorDict.given =>
            /\ error.type # "RuntimeError"
            /\ DOMAIN colorDict = DataLabels(input)
            /\ \A l, m \in DOMAIN colorDict : l # m => colorDict[l] # colorDict[m]
        /\ \A b \in Range(plt.bars) :
            b.label \in DOMAIN colorDict /\ b.color = colorDict[b.label]
        /\ \A s \in Range(plt.strips) :
            LET lc == IF input.rightColor THEN s.right ELSE s.left
            IN  lc \in DOMAIN colorDict /\ s.color = colorDict[lc]

C9_Witness ==
    /\ pc = "raised"
    /\ error.type = "RuntimeError"
    /\ input.colorDict.given
    /\ DOMAIN input.colorDict.map # {}
    /\ error.detail = <<"X">>

---------------------------------------------------------------------------
(* C10.  For a call with at least one record that passes the checks, once  *)
(* the widths are determined topEdge is bound and is the top of the last   *)
(* interval of the right stack, also when a side has a single label, and   *)
(* the layout has not failed.                                              *)
C10_TopEdgeIsRightTop ==
    (ReachesColors(input) /\ Len(input.left) > 0
        /\ (input.colorDict.given => DataLabels(input) \subseteq DOMAIN input.colorDict.map)
        /\ pc \notin {"start", "frame", "labels", "colors", "widths"}) =>
        /\ pc # "raised"
        /\ topEdge # <<>>
        /\ topEdge[1] = widths_right[rightLabels[Len(rightLabels)]]["top"]
        /\ xMax = <<topEdge[1], input.aspect>>

=============================================================================
